---- MODULE Spec2Model ----
(***************************************************************************)
(* A model of the value validator (types.rs, Value::validate_inner), of    *)
(* the schema-guided binary encoder (encode.rs, encode_ref_inner), of the  *)
(* schema resolver (types.rs, Value::resolve) and of the Record builder    *)
(* (types.rs, Record) of avro-rs.  Values and schema trees are records tagged with their variant *)
(* in the field "kind".  Text (String values, map keys, field names, enum  *)
(* symbols) is the sequence of its UTF-8 bytes; an Option is the empty     *)
(* sequence (None) or a one-element sequence (Some).                       *)
(***************************************************************************)
EXTENDS Integers, Sequences, FiniteSets, TLC

VARIABLES
    value,      \* the Value handed to validate and encode
    schema,     \* the SchemaTree handed to validate and encode
    input,      \* the buffer as the caller hands it to encode
    buffer,     \* the buffer (&mut Vec<u8>) that encode appends to
    pc,         \* where the caller stands: "ready", "validated", "encoded", ...
    valid,      \* the result of validate: None until it has run
    aborted,    \* whether the encode call panicked
    iterOrder,  \* the order in which a HashMap of the value iterates its keys
    resolved,   \* the result of value.resolve(&schema, ..): None until it has run
    again,      \* the result of resolving the resolved value once more
    record,     \* the Record builder that Record::new returned, if any
    puts        \* the calls of put so far, as <<field, value>> pairs

vars == <<value, schema, input, buffer, pc, valid, aborted, iterOrder,
          resolved, again, record, puts>>

(***************************************************************************)
(* Bounds of the model.                                                    *)
(***************************************************************************)
\* longest Array value and largest Map value that is enumerated
MaxItems == 2
\* longest byte sequence carried by an enumerated Fixed value
MaxFixedLen == 2
\* most calls of put on one Record builder
MaxPuts == 3

None == << >>
Some(x) == << x >>

(***************************************************************************)
(* enum Value                                                              *)
(***************************************************************************)
VNull == [kind |-> "Null"]
VBoolean(b) == [kind |-> "Boolean", b |-> b]
VInt(n) == [kind |-> "Int", n |-> n]
\* an i64 is carried as two 32-bit limbs, each read as an i32: n holds the low
\* 32 bits and hi the high 32 bits, so that the number is hi * 2^32 + (n mod 2^32)
sign_extend(n) == IF n < 0 THEN -1 ELSE 0
VLong64(hi, lo) == [kind |-> "Long", n |-> lo, hi |-> hi]
\* a Long whose number lies in the range of an i32
VLong(n) == VLong64(sign_extend(n), n)
\* a float is carried as its IEEE754 bit pattern, most significant octet first
VFloat(bits) == [kind |-> "Float", bits |-> bits]
VDouble(bits) == [kind |-> "Double", bits |-> bits]
VBytes(bytes) == [kind |-> "Bytes", bytes |-> bytes]
VString(s) == [kind |-> "String", s |-> s]
VFixed(n, bytes) == [kind |-> "Fixed", n |-> n, bytes |-> bytes]
VEnum(i, s) == [kind |-> "Enum", i |-> i, s |-> s]
VUnion(item) == [kind |-> "Union", item |-> item]
VArray(items) == [kind |-> "Array", items |-> items]
\* entries is a function from key to value: a HashMap holds one value per key
VMap(entries) == [kind |-> "Map", entries |-> entries]
\* fields is a sequence of <<name, value>> pairs
VRecord(fields) == [kind |-> "Record", fields |-> fields]

(***************************************************************************)
(* enum SchemaTree, and the names of its named nodes                       *)
(***************************************************************************)
Name(name, namespace) == [name |-> name, namespace |-> namespace]
RecordField(name, fschema, default) ==
    [name |-> name, schema |-> fschema, default |-> default]

SNull == [kind |-> "Null"]
SBoolean == [kind |-> "Boolean"]
SInt == [kind |-> "Int"]
SLong == [kind |-> "Long"]
SFloat == [kind |-> "Float"]
SDouble == [kind |-> "Double"]
SBytes == [kind |-> "Bytes"]
SString == [kind |-> "String"]
SFixed(name, size) == [kind |-> "Fixed", name |-> name, size |-> size]
SEnum(name, symbols) == [kind |-> "Enum", name |-> name, symbols |-> symbols]
SUnion(schemas) == [kind |-> "Union", schemas |-> schemas]
SArray(inner) == [kind |-> "Array", inner |-> inner]
SMap(inner) == [kind |-> "Map", inner |-> inner]
\* the lookup of a Record schema: the 0-based position of every field name
field_lookup(fields) ==
    [name \in { fields[k].name : k \in 1..Len(fields) } |->
        (CHOOSE k \in 1..Len(fields) : fields[k].name = name) - 1]
SRecord(name, fields) ==
    [kind |-> "Record", name |-> name, fields |-> fields,
     lookup |-> field_lookup(fields)]
STypeReference(name) == [kind |-> "TypeReference", name |-> name]

(***************************************************************************)
(* SchemaParseContext: the registry of named types and the ambient         *)
(* namespace.  A registry key is <<namespace, name>>.                      *)
(***************************************************************************)
Context(types, ns) == [types |-> types, current_namespace |-> ns]

\* SchemaParseContext::new(): no type is registered, no ambient namespace
SchemaParseContext_new == Context(<< >>, None)

\* context.lookup_type(name, context): a name that carries no namespace of
\* its own is qualified by the ambient namespace of the context
lookup_type(name, context) ==
    LET ns == IF name.namespace # None THEN name.namespace
                                        ELSE context.current_namespace
        key == <<ns, name.name>>
    IN  IF key \in DOMAIN context.types THEN Some(context.types[key]) ELSE None

\* if let Some(_) = name.name.namespace { context.current_namespace = ... }
enter_namespace(name, context) ==
    IF name.namespace # None
    THEN [context EXCEPT !.current_namespace = name.namespace]
    ELSE context

\* the iteration order of a HashMap: its keys in the order of iterOrder
map_iter(entries) == SelectSeq(iterOrder, LAMBDA k : k \in DOMAIN entries)

\* symbols.get(i as usize): a negative i32 cast to usize is at least 2^63,
\* beyond the length of any Vec, so get returns None for it
symbols_get(symbols, i) ==
    IF i >= 0 /\ i < Len(symbols) THEN Some(symbols[i + 1]) ELSE None

\* symbols.contains(s)
symbols_contains(symbols, s) == \E k \in 1..Len(symbols) : symbols[k] = s

Result(ok, context) == [ok |-> ok, ctx |-> context]

(***************************************************************************)
(* Value::validate_inner.  The result carries the verdict and the context  *)
(* as the call leaves it (the context is a &mut parameter).                *)
(***************************************************************************)
RECURSIVE validate_inner(_, _, _)
RECURSIVE validate_items(_, _, _, _)
RECURSIVE validate_entries(_, _, _, _, _)
RECURSIVE validate_fields(_, _, _, _)
RECURSIVE find_schema_from(_, _, _, _)

\* items.iter().all(|item| item.validate_inner(inner, context)), from item i
validate_items(items, inner, i, context) ==
    IF i > Len(items) THEN Result(TRUE, context)
    ELSE LET r == validate_inner(items[i], inner, context)
         IN  IF r.ok THEN validate_items(items, inner, i + 1, r.ctx)
                     ELSE Result(FALSE, r.ctx)

\* items.iter().all(|(_, value)| value.validate_inner(inner, context))
validate_entries(entries, keys, inner, i, context) ==
    IF i > Len(keys) THEN Result(TRUE, context)
    ELSE LET r == validate_inner(entries[keys[i]], inner, context)
         IN  IF r.ok THEN validate_entries(entries, keys, inner, i + 1, r.ctx)
                     ELSE Result(FALSE, r.ctx)

\* fields.iter().zip(record_fields.iter()).all(|(field, &(ref name, ref value))|
\*     field.name == *name && value.validate_inner(&field.schema, context))
validate_fields(fields, record_fields, i, context) ==
    IF i > Len(fields) \/ i > Len(record_fields) THEN Result(TRUE, context)
    ELSE IF fields[i].name # record_fields[i][1] THEN Result(FALSE, context)
    ELSE LET r == validate_inner(record_fields[i][2], fields[i].schema, context)
         IN  IF r.ok THEN validate_fields(fields, record_fields, i + 1, r.ctx)
                     ELSE Result(FALSE, r.ctx)

\* UnionSchema::find_schema: the branches are tried in declared order and the
\* first one that accepts the value wins; idx is its 0-based position
find_schema_from(schemas, v, i, context) ==
    IF i > Len(schemas) THEN [idx |-> None, ctx |-> context]
    ELSE LET r == validate_inner(v, schemas[i], context)
         IN  IF r.ok THEN [idx |-> Some(i - 1), ctx |-> r.ctx]
                     ELSE find_schema_from(schemas, v, i + 1, r.ctx)

find_schema(schemas, v, context) == find_schema_from(schemas, v, 1, context)

\* (&Value::Fixed(n, _), SchemaTree::Fixed { ref name, size })
validate_Fixed(v, s, context) ==
    Result(v.n = s.size, enter_namespace(s.name, context))

\* (&Value::String(ref s), SchemaTree::Enum { ref symbols, ref name, .. })
validate_String_Enum(v, s, context) ==
    Result(symbols_contains(s.symbols, v.s), enter_namespace(s.name, context))

\* validate_Enum with the symbol comparison lost: any index in range passes
validate_Enum_index_only(v, s, context) ==
    Result(symbols_get(s.symbols, v.i) # None, enter_namespace(s.name, context))

\* (&Value::Enum(i, ref s), SchemaTree::Enum { ref symbols, ref name, .. })
validate_Enum(v, s, context) ==
    LET symbol == symbols_get(s.symbols, v.i)
    IN  Result(IF symbol # None THEN symbol[1] = v.s ELSE FALSE,
               enter_namespace(s.name, context))

\* (&Value::Union(ref value), SchemaTree::Union(ref inner))
validate_Union(v, s, context) ==
    LET f == find_schema(s.schemas, v.item, context)
    IN  Result(f.idx # None, f.ctx)

\* (&Value::Array(ref items), SchemaTree::Array(ref inner))
validate_Array(v, s, context) == validate_items(v.items, s.inner, 1, context)

\* (&Value::Map(ref items), SchemaTree::Map(ref inner))
validate_Map(v, s, context) ==
    validate_entries(v.entries, map_iter(v.entries), s.inner, 1, context)

\* validate_Record with the comparison of the field counts lost
validate_Record_no_count(v, s, context) ==
    validate_fields(s.fields, v.fields, 1, enter_namespace(s.name, context))

\* (&Value::Record(ref record_fields), SchemaTree::Record { ref fields, ref name, .. })
validate_Record(v, s, context) ==
    IF Len(s.fields) = Len(v.fields)
    THEN validate_fields(s.fields, v.fields, 1, enter_namespace(s.name, context))
    ELSE Result(FALSE, enter_namespace(s.name, context))

\* validate_Record_Union as if the arm were missing: the pair falls through
\* to the catch-all arm
validate_Record_Union_missing(v, s, context) == Result(FALSE, context)

\* (r @ Value::Record(..), SchemaTree::Union(ref inner))
validate_Record_Union(v, s, context) ==
    LET f == find_schema(s.schemas, v, context)
    IN  Result(f.idx # None, f.ctx)

\* (&Value::Record(_), SchemaTree::TypeReference(ref name)) and
\* (&Value::Fixed(n, _), SchemaTree::TypeReference(ref name))
validate_TypeReference(v, s, context) ==
    LET t == lookup_type(s.name, context)
    IN  IF t # None THEN validate_inner(v, t[1], context)
                    ELSE Result(FALSE, context)

PrimitiveKinds ==
    {"Null", "Boolean", "Int", "Long", "Float", "Double", "Bytes", "String"}

validate_inner(v, s, context) ==
    CASE v.kind = s.kind /\ v.kind \in PrimitiveKinds -> Result(TRUE, context)
      [] v.kind = "Fixed" /\ s.kind = "Fixed" -> validate_Fixed(v, s, context)
      [] v.kind = "String" /\ s.kind = "Enum" -> validate_String_Enum(v, s, context)
      [] v.kind = "Enum" /\ s.kind = "Enum" -> validate_Enum(v, s, context)
      [] v.kind = "Union" /\ s.kind = "Union" -> validate_Union(v, s, context)
      [] v.kind = "Array" /\ s.kind = "Array" -> validate_Array(v, s, context)
      [] v.kind = "Map" /\ s.kind = "Map" -> validate_Map(v, s, context)
      [] v.kind = "Record" /\ s.kind = "Record" -> validate_Record(v, s, context)
      [] v.kind = "Record" /\ s.kind = "Union" -> validate_Record_Union(v, s, context)
      [] v.kind \in {"Record", "Fixed"} /\ s.kind = "TypeReference" ->
             validate_TypeReference(v, s, context)
      [] OTHER -> Result(FALSE, context)


(***************************************************************************)
(* util::zig_i32 / zig_i64: the zig-zag variable-length integer.           *)
(* (n << 1) ^ (n >> (width - 1)) is 2n for n >= 0 and -2n - 1 for n < 0;   *)
(* it is then emitted 7 bits per byte, low group first, with the           *)
(* continuation bit set on every byte but the last.                        *)
(***************************************************************************)
zigzag(n) == IF n >= 0 THEN 2 * n ELSE -(2 * n) - 1

RECURSIVE varint(_)
varint(z) ==
    IF z < 128 THEN << z >>
    ELSE << (z % 128) + 128 >> \o varint(z \div 128)

\* bit k (0 is the least significant) of the two's complement i32 x
bit(x, k) == IF k = 31 THEN (IF x < 0 THEN 1 ELSE 0) ELSE (x \div (2 ^ k)) % 2

\* bit k of the i64 with limbs hi and lo
i64_bit(hi, lo, k) == IF k < 32 THEN bit(lo, k) ELSE bit(hi, k - 32)

\* bit k of (n << 1) ^ (n >> 63), read as a u64
zigzag_bit(hi, lo, k) ==
    IF k > 63 THEN 0
    ELSE IF k = 0 THEN i64_bit(hi, lo, 63)
    ELSE (i64_bit(hi, lo, k - 1) + i64_bit(hi, lo, 63)) % 2

\* the 7-bit groups of the zig-zag number from group j on, low group first
RECURSIVE varint_limbs(_, _, _)
varint_limbs(hi, lo, j) ==
    LET group == zigzag_bit(hi, lo, 7 * j)
                 + 2 * zigzag_bit(hi, lo, 7 * j + 1)
                 + 4 * zigzag_bit(hi, lo, 7 * j + 2)
                 + 8 * zigzag_bit(hi, lo, 7 * j + 3)
                 + 16 * zigzag_bit(hi, lo, 7 * j + 4)
                 + 32 * zigzag_bit(hi, lo, 7 * j + 5)
                 + 64 * zigzag_bit(hi, lo, 7 * j + 6)
        more == \E k \in (7 * j + 7)..63 : zigzag_bit(hi, lo, k) = 1
    IN  IF more THEN << group + 128 >> \o varint_limbs(hi, lo, j + 1)
        ELSE << group >>

\* the numbers whose zig-zag form is computed arithmetically
InArith(n) == n > -(2 ^ 30) /\ n < 2 ^ 30

\* zig_i64 of the i64 with limbs hi and lo
zig_i64_limbs(hi, lo, buf) ==
    IF hi = sign_extend(lo) /\ InArith(lo) THEN buf \o varint(zigzag(lo))
    ELSE buf \o varint_limbs(hi, lo, 0)

zig_i64(n, buf) == zig_i64_limbs(sign_extend(n), n, buf)
zig_i32(n, buf) == zig_i64_limbs(sign_extend(n), n, buf)

encode_long(i, buf) == zig_i64(i, buf)
encode_int(i, buf) == zig_i32(i, buf)

\* transmute::<f32, [u8; 4]> / transmute::<f64, [u8; 8]>: the octets of the
\* bit pattern in memory order, least significant first on the build target
RECURSIVE reverse(_)
reverse(seq) ==
    IF seq = << >> THEN << >> ELSE reverse(Tail(seq)) \o << Head(seq) >>

transmute(bits) == reverse(bits)

\* symbols.iter().position(|item| item == s)
RECURSIVE position_from(_, _, _)
position_from(symbols, s, i) ==
    IF i > Len(symbols) THEN None
    ELSE IF symbols[i] = s THEN Some(i - 1)
    ELSE position_from(symbols, s, i + 1)

position(symbols, s) == position_from(symbols, s, 1)

(***************************************************************************)
(* encode_ref_inner.  The result carries the buffer, whether the call      *)
(* panicked (the buffer then holds what was appended before the panic),    *)
(* and the context as the call leaves it.                                  *)
(***************************************************************************)
Encoded(buf, context) == [buf |-> buf, aborted |-> FALSE, ctx |-> context]
Panicked(buf, context) == [buf |-> buf, aborted |-> TRUE, ctx |-> context]

RECURSIVE encode_ref_inner(_, _, _, _)
RECURSIVE encode_items(_, _, _, _, _)
RECURSIVE encode_entries(_, _, _, _, _, _)
RECURSIVE encode_fields(_, _, _, _, _)
RECURSIVE encode_fields_named(_, _, _, _, _)

\* pub fn encode: a fresh, empty context for every call
encode(v, s, buf) == encode_ref_inner(v, s, buf, SchemaParseContext_new)

\* pub(crate) fn encode_inner: the caller's context
encode_inner(v, s, buf, context) == encode_ref_inner(v, s, buf, context)

\* encode_bytes: the length as a Long, then the bytes
encode_bytes(bytes, buf) == encode(VLong(Len(bytes)), SLong, buf).buf \o bytes

\* for item in items.iter() { encode_ref_inner(item, &inner, buffer, context) }
encode_items(items, inner, i, buf, context) ==
    IF i > Len(items) THEN Encoded(buf, context)
    ELSE LET r == encode_ref_inner(items[i], inner, buf, context)
         IN  IF r.aborted THEN r
             ELSE encode_items(items, inner, i + 1, r.buf, r.ctx)

\* for (key, value) in items { encode_bytes(key, ..); encode_ref_inner(value, ..) }
encode_entries(entries, keys, inner, i, buf, context) ==
    IF i > Len(keys) THEN Encoded(buf, context)
    ELSE LET r == encode_ref_inner(entries[keys[i]], inner,
                                   encode_bytes(keys[i], buf), context)
         IN  IF r.aborted THEN r
             ELSE encode_entries(entries, keys, inner, i + 1, r.buf, r.ctx)

\* encode_fields with every value framed by its field name
encode_fields_named(fields, schema_fields, i, buf, context) ==
    IF i > Len(fields) THEN Encoded(buf, context)
    ELSE IF i > Len(schema_fields) THEN Panicked(buf, context)
    ELSE LET r == encode_ref_inner(fields[i][2], schema_fields[i].schema,
                                   encode_bytes(fields[i][1], buf), context)
         IN  IF r.aborted THEN r
             ELSE encode_fields_named(fields, schema_fields, i + 1, r.buf, r.ctx)

\* for (i, &(_, ref value)) in fields.iter().enumerate() {
\*     encode_ref_inner(value, &schema_fields[i].schema, buffer, context) }
\* schema_fields[i] panics when the value has more fields than the schema
encode_fields(fields, schema_fields, i, buf, context) ==
    IF i > Len(fields) THEN Encoded(buf, context)
    ELSE IF i > Len(schema_fields) THEN Panicked(buf, context)
    ELSE LET r == encode_ref_inner(fields[i][2], schema_fields[i].schema,
                                   buf, context)
         IN  IF r.aborted THEN r
             ELSE encode_fields(fields, schema_fields, i + 1, r.buf, r.ctx)

\* Value::String(s) => match **schema
encode_String(v, s, buf, context) ==
    CASE s.kind = "String" -> Encoded(encode_bytes(v.s, buf), context)
      [] s.kind = "Enum" ->
             LET index == position(s.symbols, v.s)
             IN  IF index # None THEN Encoded(encode_int(index[1], buf), context)
                                 ELSE Encoded(buf, context)
      [] OTHER -> Encoded(buf, context)

\* encode_Union skipping a value that no branch accepts
encode_Union_skips_unmatched(v, s, buf, context) ==
    IF s.kind = "Union"
    THEN LET f == find_schema(s.schemas, v.item, context)
         IN  IF f.idx = None THEN Encoded(buf, f.ctx)
             ELSE encode_ref_inner(v.item, s.schemas[f.idx[1] + 1],
                                   encode_long(f.idx[1], buf), f.ctx)
    ELSE Encoded(buf, context)

\* encode_Union writing the 1-based position of the branch
encode_Union_one_based(v, s, buf, context) ==
    IF s.kind = "Union"
    THEN LET f == find_schema(s.schemas, v.item, context)
         IN  IF f.idx = None THEN Panicked(buf, f.ctx)
             ELSE encode_ref_inner(v.item, s.schemas[f.idx[1] + 1],
                                   encode_long(f.idx[1] + 1, buf), f.ctx)
    ELSE Encoded(buf, context)

\* Value::Union(item): find_schema(..).expect(..) panics when no branch matches
encode_Union(v, s, buf, context) ==
    IF s.kind = "Union"
    THEN LET f == find_schema(s.schemas, v.item, context)
         IN  IF f.idx = None THEN Panicked(buf, f.ctx)
             ELSE encode_ref_inner(v.item, s.schemas[f.idx[1] + 1],
                                   encode_long(f.idx[1], buf), f.ctx)
    ELSE Encoded(buf, context)

\* encode_Array writing the block count of an empty array as well
encode_Array_counts_empty(v, s, buf, context) ==
    IF s.kind = "Array"
    THEN LET r == encode_items(v.items, s.inner, 1,
                               encode_long(Len(v.items), buf), context)
         IN  IF r.aborted THEN r ELSE Encoded(r.buf \o << 0 >>, r.ctx)
    ELSE Encoded(buf, context)

\* Value::Array(items)
encode_Array(v, s, buf, context) ==
    IF s.kind = "Array"
    THEN LET r == IF v.items # << >>
                  THEN encode_items(v.items, s.inner, 1,
                                    encode_long(Len(v.items), buf), context)
                  ELSE Encoded(buf, context)
         IN  IF r.aborted THEN r ELSE Encoded(r.buf \o << 0 >>, r.ctx)
    ELSE Encoded(buf, context)

\* encode_Map pushing the terminator whatever the schema is
encode_Map_always_terminates(v, s, buf, context) ==
    LET keys == map_iter(v.entries)
        r == IF s.kind = "Map" /\ keys # << >>
             THEN encode_entries(v.entries, keys, s.inner, 1,
                                 encode_long(Len(keys), buf), context)
             ELSE Encoded(buf, context)
    IN  IF r.aborted THEN r ELSE Encoded(r.buf \o << 0 >>, r.ctx)

\* Value::Map(items)
encode_Map(v, s, buf, context) ==
    IF s.kind = "Map"
    THEN LET keys == map_iter(v.entries)
             r == IF keys # << >>
                  THEN encode_entries(v.entries, keys, s.inner, 1,
                                      encode_long(Len(keys), buf), context)
                  ELSE Encoded(buf, context)
         IN  IF r.aborted THEN r ELSE Encoded(r.buf \o << 0 >>, r.ctx)
    ELSE Encoded(buf, context)

\* Value::Record(fields): against a Record schema, or against a TypeReference
\* that the context resolves to a Record schema
encode_Record(v, s, buf, context) ==
    IF s.kind = "Record"
    THEN encode_fields(v.fields, s.fields, 1, buf, context)
    ELSE IF s.kind = "TypeReference"
    THEN LET ref_schema == lookup_type(s.name, context)
         IN  IF ref_schema # None /\ ref_schema[1].kind = "Record"
             THEN encode_fields(v.fields, ref_schema[1].fields, 1, buf, context)
             ELSE Encoded(buf, context)
    ELSE Encoded(buf, context)

encode_ref_inner(v, s, buf, context) ==
    CASE v.kind = "Null" -> Encoded(buf, context)
      [] v.kind = "Boolean" ->
             Encoded(buf \o << IF v.b THEN 1 ELSE 0 >>, context)
      [] v.kind = "Int" -> Encoded(encode_int(v.n, buf), context)
      \* encode_long(*i, buffer), for the i64 that the value carries as limbs
      [] v.kind = "Long" -> Encoded(zig_i64_limbs(v.hi, v.n, buf), context)
      [] v.kind = "Float" -> Encoded(buf \o transmute(v.bits), context)
      [] v.kind = "Double" -> Encoded(buf \o transmute(v.bits), context)
      [] v.kind = "Bytes" -> Encoded(encode_bytes(v.bytes, buf), context)
      [] v.kind = "String" -> encode_String(v, s, buf, context)
      [] v.kind = "Fixed" -> Encoded(buf \o v.bytes, context)
      [] v.kind = "Enum" -> Encoded(encode_int(v.i, buf), context)
      [] v.kind = "Union" -> encode_Union(v, s, buf, context)
      [] v.kind = "Array" -> encode_Array(v, s, buf, context)
      [] v.kind = "Map" -> encode_Map(v, s, buf, context)
      [] v.kind = "Record" -> encode_Record(v, s, buf, context)


(***************************************************************************)
(* Numeric casts of the resolver.  A number is handled as the sequence of  *)
(* its binary digits, most significant first.                              *)
(***************************************************************************)
zeros(n) == [k \in 1..n |-> 0]
ones(n) == [k \in 1..n |-> 1]

\* the w binary digits of x, for 0 <= x < 2^w
to_bits(x, w) == [k \in 1..w |-> (x \div (2 ^ (w - k))) % 2]

RECURSIVE from_bits(_)
from_bits(bits) ==
    IF bits = << >> THEN 0
    ELSE 2 * from_bits(SubSeq(bits, 1, Len(bits) - 1)) + bits[Len(bits)]

RECURSIVE octets_to_bits(_)
octets_to_bits(octets) ==
    IF octets = << >> THEN << >>
    ELSE to_bits(Head(octets), 8) \o octets_to_bits(Tail(octets))

RECURSIVE bits_to_octets(_)
bits_to_octets(bits) ==
    IF bits = << >> THEN << >>
    ELSE << from_bits(SubSeq(bits, 1, 8)) >>
         \o bits_to_octets(SubSeq(bits, 9, Len(bits)))

\* bits + 1 at the width of bits
RECURSIVE increment(_)
increment(bits) ==
    IF bits = << >> THEN << >>
    ELSE IF bits[Len(bits)] = 0
         THEN SubSeq(bits, 1, Len(bits) - 1) \o << 1 >>
         ELSE increment(SubSeq(bits, 1, Len(bits) - 1)) \o << 0 >>

RECURSIVE strip_zeros(_)
strip_zeros(bits) ==
    IF bits = << >> \/ Head(bits) = 1 THEN bits ELSE strip_zeros(Tail(bits))

\* the absolute value of the i64 with limbs hi and lo, as 64 binary digits
magnitude(hi, lo) ==
    LET digits == [k \in 1..64 |-> i64_bit(hi, lo, 64 - k)]
    IN  IF hi < 0 THEN increment([k \in 1..64 |-> 1 - digits[k]]) ELSE digits

\* the IEEE754 number with E exponent bits and F fraction bits nearest to
\* (-1)^sign * m * 2^scale, ties to even, as octets
round_pack(sign, m, scale, E, F) ==
    LET ms == strip_zeros(m)
        bias == 2 ^ (E - 1) - 1
        be == Len(ms) - 1 + scale + bias
        digits == IF be >= 1 THEN Tail(ms) ELSE zeros(-be) \o ms
        padded == digits \o zeros(F)
        kept == to_bits(IF be >= 1 THEN be ELSE 0, E) \o SubSeq(padded, 1, F)
        rest == SubSeq(digits, F + 1, Len(digits))
        above == rest # << >> /\ rest[1] = 1
                 /\ \E k \in 2..Len(rest) : rest[k] = 1
        tie == rest # << >> /\ rest[1] = 1
               /\ \A k \in 2..Len(rest) : rest[k] = 0
        up == above \/ (tie /\ kept[E + F] = 1)
    IN  IF ms = << >> THEN bits_to_octets(<< sign >> \o zeros(E + F))
        ELSE IF be >= 2 ^ E - 1
             THEN bits_to_octets(<< sign >> \o ones(E) \o zeros(F))
        ELSE bits_to_octets(<< sign >> \o (IF up THEN increment(kept) ELSE kept))

\* n as f32 / n as f64 / f64::from(n), for the i64 with limbs hi and lo
int_to_float(hi, lo, E, F) ==
    round_pack(IF hi < 0 THEN 1 ELSE 0, magnitude(hi, lo), 0, E, F)

\* x as f32 / f64::from(x): from E1 exponent bits and F1 fraction bits to E2
\* and F2.  A NaN keeps the leading bits of its payload and is made quiet.
float_to_float(octets, E1, F1, E2, F2) ==
    LET bits == octets_to_bits(octets)
        sign == bits[1]
        exp == from_bits(SubSeq(bits, 2, E1 + 1))
        frac == SubSeq(bits, E1 + 2, E1 + F1 + 1)
        bias == 2 ^ (E1 - 1) - 1
    IN  IF exp = 2 ^ E1 - 1
        THEN IF frac = zeros(F1)
             THEN bits_to_octets(<< sign >> \o ones(E2) \o zeros(F2))
             ELSE bits_to_octets(<< sign >> \o ones(E2) \o << 1 >>
                                 \o SubSeq(frac \o zeros(F2), 2, F2))
        ELSE IF exp = 0 THEN round_pack(sign, frac, 1 - bias - F1, E2, F2)
        ELSE round_pack(sign, << 1 >> \o frac, exp - bias - F1, E2, F2)

\* String::from_utf8(bytes).is_ok(): bytes from index i on are well-formed
\* UTF-8 (no overlong form, no surrogate, nothing above U+10FFFF)
RECURSIVE utf8_from(_, _)
utf8_from(bytes, i) ==
    LET cont(k) == k <= Len(bytes) /\ bytes[k] >= 128 /\ bytes[k] <= 191
        within(k, lo, hi) == k <= Len(bytes) /\ bytes[k] >= lo /\ bytes[k] <= hi
        b == bytes[i]
    IN  IF i > Len(bytes) THEN TRUE
        ELSE IF b < 128 THEN utf8_from(bytes, i + 1)
        ELSE IF b >= 194 /\ b <= 223
             THEN cont(i + 1) /\ utf8_from(bytes, i + 2)
        ELSE IF b = 224
             THEN within(i + 1, 160, 191) /\ cont(i + 2) /\ utf8_from(bytes, i + 3)
        ELSE IF b = 237
             THEN within(i + 1, 128, 159) /\ cont(i + 2) /\ utf8_from(bytes, i + 3)
        ELSE IF b >= 225 /\ b <= 239
             THEN cont(i + 1) /\ cont(i + 2) /\ utf8_from(bytes, i + 3)
        ELSE IF b = 240
             THEN within(i + 1, 144, 191) /\ cont(i + 2) /\ cont(i + 3)
                  /\ utf8_from(bytes, i + 4)
        ELSE IF b = 244
             THEN within(i + 1, 128, 143) /\ cont(i + 2) /\ cont(i + 3)
                  /\ utf8_from(bytes, i + 4)
        ELSE IF b >= 241 /\ b <= 243
             THEN cont(i + 1) /\ cont(i + 2) /\ cont(i + 3)
                  /\ utf8_from(bytes, i + 4)
        ELSE FALSE

from_utf8(bytes) == IF utf8_from(bytes, 1) THEN Some(bytes) ELSE None

(***************************************************************************)
(* serde_json::Value, the form in which a record field keeps its default,  *)
(* and its conversion to a Value (impl ToAvro for JsonValue).              *)
(***************************************************************************)
JsonNull == [kind |-> "Null"]
JsonBool(b) == [kind |-> "Bool", b |-> b]
\* a Number that is_i64, as the limbs of the i64
JsonI64(hi, lo) == [kind |-> "Number", is |-> "i64", hi |-> hi, n |-> lo]
\* a Number above i64::MAX, as the limbs of the u64
JsonU64(hi, lo) == [kind |-> "Number", is |-> "u64", hi |-> hi, n |-> lo]
JsonF64(bits) == [kind |-> "Number", is |-> "f64", bits |-> bits]
JsonString(s) == [kind |-> "String", s |-> s]
JsonArray(items) == [kind |-> "Array", items |-> items]
JsonObject(entries) == [kind |-> "Object", entries |-> entries]

RECURSIVE avro(_)
avro(json) ==
    CASE json.kind = "Null" -> VNull
      [] json.kind = "Bool" -> VBoolean(json.b)
      [] json.kind = "Number" /\ json.is = "i64" -> VLong64(json.hi, json.n)
      [] json.kind = "Number" /\ json.is = "f64" -> VDouble(json.bits)
      \* n.as_u64().unwrap() as i64: the same 64 bits read as an i64
      [] json.kind = "Number" /\ json.is = "u64" -> VLong64(json.hi, json.n)
      [] json.kind = "String" -> VString(json.s)
      [] json.kind = "Array" ->
             VArray([k \in 1..Len(json.items) |-> avro(json.items[k])])
      [] json.kind = "Object" ->
             VMap([k \in DOMAIN json.entries |-> avro(json.entries[k])])

(***************************************************************************)
(* Value::resolve.  The result is Ok with the resolved value or Err with   *)
(* the head of the error message; it carries the context as the call       *)
(* leaves it.                                                              *)
(***************************************************************************)
Ok(v, context) == [ok |-> TRUE, val |-> v, ctx |-> context]
Err(e, context) == [ok |-> FALSE, err |-> e, ctx |-> context]

RECURSIVE resolve(_, _, _)
RECURSIVE resolve_items(_, _, _, _, _)
RECURSIVE resolve_entries(_, _, _, _, _, _)
RECURSIVE resolve_fields(_, _, _, _, _)
RECURSIVE resolve_fields_prepend(_, _, _, _, _)

resolve_null(v, context) ==
    IF v.kind = "Null" THEN Ok(VNull, context)
    ELSE Err("Null expected", context)

resolve_boolean(v, context) ==
    IF v.kind = "Boolean" THEN Ok(VBoolean(v.b), context)
    ELSE Err("Boolean expected", context)

\* n as i32, for the i64 with limbs hi and lo: the low 32 bits
as_i32(hi, lo) == lo

\* resolve_int refusing a Long that is not in the range of an i32
resolve_int_checked(v, context) ==
    CASE v.kind = "Int" -> Ok(VInt(v.n), context)
      [] v.kind = "Long" /\ v.hi = sign_extend(v.n) -> Ok(VInt(v.n), context)
      [] OTHER -> Err("Int expected", context)

resolve_int(v, context) ==
    CASE v.kind = "Int" -> Ok(VInt(v.n), context)
      [] v.kind = "Long" -> Ok(VInt(as_i32(v.hi, v.n)), context)
      [] OTHER -> Err("Int expected", context)

resolve_long(v, context) ==
    CASE v.kind = "Int" -> Ok(VLong64(sign_extend(v.n), v.n), context)
      [] v.kind = "Long" -> Ok(VLong64(v.hi, v.n), context)
      [] OTHER -> Err("Long expected", context)

resolve_float(v, context) ==
    CASE v.kind = "Int" ->
             Ok(VFloat(int_to_float(sign_extend(v.n), v.n, 8, 23)), context)
      [] v.kind = "Long" -> Ok(VFloat(int_to_float(v.hi, v.n, 8, 23)), context)
      [] v.kind = "Float" -> Ok(VFloat(v.bits), context)
      [] v.kind = "Double" ->
             Ok(VFloat(float_to_float(v.bits, 11, 52, 8, 23)), context)
      [] OTHER -> Err("Float expected", context)

resolve_double(v, context) ==
    CASE v.kind = "Int" ->
             Ok(VDouble(int_to_float(sign_extend(v.n), v.n, 11, 52)), context)
      [] v.kind = "Long" -> Ok(VDouble(int_to_float(v.hi, v.n, 11, 52)), context)
      [] v.kind = "Float" ->
             Ok(VDouble(float_to_float(v.bits, 8, 23, 11, 52)), context)
      [] v.kind = "Double" -> Ok(VDouble(v.bits), context)
      [] OTHER -> Err("Double expected", context)

resolve_bytes(v, context) ==
    CASE v.kind = "Bytes" -> Ok(VBytes(v.bytes), context)
      [] v.kind = "String" -> Ok(VBytes(v.s), context)
      [] OTHER -> Err("Bytes expected", context)

resolve_string(v, context) ==
    CASE v.kind = "String" -> Ok(VString(v.s), context)
      [] v.kind = "Bytes" ->
             LET s == from_utf8(v.bytes)
             IN  IF s # None THEN Ok(VString(s[1]), context)
                             ELSE Err("FromUtf8Error", context)
      [] OTHER -> Err("String expected", context)

resolve_fixed(v, size, context) ==
    IF v.kind = "Fixed"
    THEN IF v.n = size THEN Ok(VFixed(v.n, v.bytes), context)
                       ELSE Err("Fixed size mismatch", context)
    ELSE Err("String expected", context)

\* the closure validate_symbol of resolve_enum
validate_symbol(symbol, symbols, context) ==
    LET index == position(symbols, symbol)
    IN  IF index # None THEN Ok(VEnum(index[1], symbol), context)
        ELSE Err("Enum default is not among allowed symbols", context)

resolve_enum(v, symbols, context) ==
    CASE v.kind = "Enum" ->
             IF v.i > 0 /\ v.i < Len(symbols)
             THEN validate_symbol(v.s, symbols, context)
             ELSE Err("Enum value is out of bound", context)
      [] v.kind = "String" -> validate_symbol(v.s, symbols, context)
      [] OTHER -> Err("Enum expected", context)

resolve_union(self, schemas, context) ==
    LET v == IF self.kind = "Union" THEN self.item ELSE self
        f == find_schema(schemas, v, context)
    IN  IF f.idx = None
        THEN Err("Could not find matching type in union", f.ctx)
        ELSE resolve(v, schemas[f.idx[1] + 1], f.ctx)

\* items.into_iter().map(|item| item.resolve(schema, context)).collect(): the
\* first error ends the iteration
resolve_items(items, inner, i, acc, context) ==
    IF i > Len(items) THEN Ok(VArray(acc), context)
    ELSE LET r == resolve(items[i], inner, context)
         IN  IF r.ok
             THEN resolve_items(items, inner, i + 1, Append(acc, r.val), r.ctx)
             ELSE r

resolve_array(v, inner, context) ==
    IF v.kind = "Array" THEN resolve_items(v.items, inner, 1, << >>, context)
    ELSE Err("Array expected", context)

\* the entries in the iteration order keys of the HashMap
resolve_entries(entries, keys, inner, i, acc, context) ==
    IF i > Len(keys) THEN Ok(VMap(acc), context)
    ELSE LET r == resolve(entries[keys[i]], inner, context)
         IN  IF r.ok
             THEN resolve_entries(entries, keys, inner, i + 1,
                                  acc @@ (keys[i] :> r.val), r.ctx)
             ELSE r

resolve_map(v, inner, context) ==
    IF v.kind = "Map"
    THEN resolve_entries(v.entries, map_iter(v.entries), inner, 1, << >>, context)
    ELSE Err("Map expected", context)

\* fields.into_iter().collect::<HashMap<_, _>>(): of the fields that share a
\* name the last one stays
collect_fields(fields) ==
    [name \in { fields[k][1] : k \in 1..Len(fields) } |->
        LET last == CHOOSE k \in 1..Len(fields) :
                        /\ fields[k][1] = name
                        /\ \A j \in (k + 1)..Len(fields) : fields[j][1] # name
        IN  fields[last][2]]

\* the value that resolve_record takes for a reader field: the one the input
\* carries, else the default of the field
field_value(items, field, context) ==
    IF field.name \in DOMAIN items THEN Ok(items[field.name], context)
    ELSE IF field.default # None
    THEN IF field.schema.kind = "Enum"
         THEN resolve_enum(avro(field.default[1]), field.schema.symbols, context)
         ELSE Ok(avro(field.default[1]), context)
    ELSE Err("missing field in record", context)

\* resolve_fields putting every resolved field in front of the earlier ones
resolve_fields_prepend(items, fields, i, acc, context) ==
    IF i > Len(fields) THEN Ok(VRecord(acc), context)
    ELSE LET field == fields[i]
             taken == field_value(items, field, context)
             left == [k \in DOMAIN items \ {field.name} |-> items[k]]
         IN  IF ~taken.ok THEN taken
             ELSE LET r == resolve(taken.val, field.schema, context)
                  IN  IF r.ok
                      THEN resolve_fields_prepend(left, fields, i + 1,
                               << << field.name, r.val >> >> \o acc, r.ctx)
                      ELSE r

\* the closure of resolve_record over the reader fields from field i on; items
\* is what items.remove has left
resolve_fields(items, fields, i, acc, context) ==
    IF i > Len(fields) THEN Ok(VRecord(acc), context)
    ELSE LET field == fields[i]
             taken == field_value(items, field, context)
             left == [k \in DOMAIN items \ {field.name} |-> items[k]]
         IN  IF ~taken.ok THEN taken
             ELSE LET r == resolve(taken.val, field.schema, context)
                  IN  IF r.ok
                      THEN resolve_fields(left, fields, i + 1,
                               Append(acc, << field.name, r.val >>), r.ctx)
                      ELSE r

resolve_record(v, fields, context) ==
    CASE v.kind = "Map" -> resolve_fields(v.entries, fields, 1, << >>, context)
      [] v.kind = "Record" ->
             resolve_fields(collect_fields(v.fields), fields, 1, << >>, context)
      [] OTHER -> Err("Record expected", context)

\* SchemaTree::TypeReference(ref name)
resolve_TypeReference(v, name, context) ==
    LET s == lookup_type(name, context)
    IN  IF s = None THEN Err("Couldn't resolve type reference", context)
        ELSE resolve(v, s[1], context)

resolve(v, s, context) ==
    LET self == IF v.kind = "Union" /\ s.kind # "Union" THEN v.item ELSE v
    IN  CASE s.kind = "Null" -> resolve_null(self, context)
          [] s.kind = "Boolean" -> resolve_boolean(self, context)
          [] s.kind = "Int" -> resolve_int(self, context)
          [] s.kind = "Long" -> resolve_long(self, context)
          [] s.kind = "Float" -> resolve_float(self, context)
          [] s.kind = "Double" -> resolve_double(self, context)
          [] s.kind = "Bytes" -> resolve_bytes(self, context)
          [] s.kind = "String" -> resolve_string(self, context)
          [] s.kind = "Fixed" -> resolve_fixed(self, s.size, context)
          [] s.kind = "Union" -> resolve_union(self, s.schemas, context)
          [] s.kind = "Enum" -> resolve_enum(self, s.symbols, context)
          [] s.kind = "Array" -> resolve_array(self, s.inner, context)
          [] s.kind = "Map" -> resolve_map(self, s.inner, context)
          [] s.kind = "Record" -> resolve_record(self, s.fields, context)
          [] s.kind = "TypeReference" ->
                 resolve_TypeReference(self, s.name, context)

(***************************************************************************)
(* struct Record, the builder of Record values.                            *)
(***************************************************************************)
\* Record::with_placeholder: every schema field with the placeholder, in the
\* order of the schema, and the lookup of the schema
with_placeholder(s, placeholder) ==
    IF s.kind = "Record"
    THEN Some([fields |-> [k \in 1..Len(s.fields) |->
                              << s.fields[k].name, placeholder >>],
               schema_lookup |-> s.lookup])
    ELSE None

Record_new(s) == with_placeholder(s, VNull)

\* put that keeps what an earlier put has stored
put_keeps_first(rec, field, v) ==
    IF field \in DOMAIN rec.schema_lookup
       /\ rec.fields[rec.schema_lookup[field] + 1][2] = VNull
    THEN [rec EXCEPT !.fields[rec.schema_lookup[field] + 1][2] = v]
    ELSE rec

\* Record::put, for a value that is a Value already (its avro() is itself);
\* the lookup holds the positions of the fields of the builder only
put(rec, field, v) ==
    IF field \in DOMAIN rec.schema_lookup
    THEN [rec EXCEPT !.fields[rec.schema_lookup[field] + 1][2] = v]
    ELSE rec

(***************************************************************************)
(* The inputs: text, the registry of named types, schema trees and values. *)
(***************************************************************************)
txt_a == << 97 >>
txt_b == << 98 >>
txt_c == << 99 >>
txt_r == << 114 >>
txt_u == << 117 >>
txt_foo == << 102, 111, 111 >>
sym_A == << 65 >>
sym_B == << 66 >>
sym_Z == << 90 >>
txt_z == << 122 >>

\* Record R {a: long, b: string}, the record of tests::validate_record
RecR == SRecord(Name("R", None),
                << RecordField(txt_a, SLong, None),
                   RecordField(txt_b, SString, None) >>)
\* the record R of namespace x: {a: long}
RecXR == SRecord(Name("R", Some("x")), << RecordField(txt_a, SLong, None) >>)
FixF == SFixed(Name("F", None), 2)
FixXG == SFixed(Name("G", Some("x")), 1)
EnumE == SEnum(Name("E", None), << sym_A, sym_B >>)
EnumE2 == SEnum(Name("E2", None), << sym_B, sym_Z, sym_A >>)

\* R with its fields in the other order: {b: string, a: long}
RecBA == SRecord(Name("BA", None),
                 << RecordField(txt_b, SString, None),
                    RecordField(txt_a, SLong, None) >>)
\* {a: int, b: string default "z"}
RecD == SRecord(Name("D", None),
                << RecordField(txt_a, SInt, None),
                   RecordField(txt_b, SString, Some(JsonString(txt_z))) >>)
\* {a: long default 7, c: E default "A"}: the default is the first symbol
RecDE == SRecord(Name("DE", None),
                 << RecordField(txt_a, SLong, Some(JsonI64(0, 7))),
                    RecordField(txt_c, EnumE, Some(JsonString(sym_A))) >>)
\* {c: E default "B"}
RecDB == SRecord(Name("DB", None),
                 << RecordField(txt_c, EnumE, Some(JsonString(sym_B))) >>)
\* {c: E default "Z"}: the default is no symbol of E
RecDZ == SRecord(Name("DZ", None),
                 << RecordField(txt_c, EnumE, Some(JsonString(sym_Z))) >>)
\* {c: E by reference, default "A"}
RecDR == SRecord(Name("DR", None),
                 << RecordField(txt_c, STypeReference(Name("E", None)),
                                Some(JsonString(sym_A))) >>)
\* defaults of the other JSON forms: u64::MAX, 1.0, [true, null], {"a": 1}
RecDJ == SRecord(Name("DJ", None),
                 << RecordField(txt_a, SLong, Some(JsonU64(-1, -1))),
                    RecordField(txt_b, SDouble,
                                Some(JsonF64(<< 63, 240, 0, 0, 0, 0, 0, 0 >>))),
                    RecordField(txt_c, SArray(SUnion(<< SBoolean, SNull >>)),
                                Some(JsonArray(<< JsonBool(TRUE), JsonNull >>))),
                    RecordField(txt_u, SMap(SInt),
                                Some(JsonObject(txt_a :> JsonI64(0, 1)))) >>)

\* the named types the schema declares, by <<namespace, name>>
Registry ==
    (<< None, "R" >> :> RecR) @@ (<< None, "F" >> :> FixF) @@
    (<< None, "E" >> :> EnumE) @@ (<< Some("x"), "R" >> :> RecXR)

RefR == STypeReference(Name("R", None))
RefF == STypeReference(Name("F", None))
RefE == STypeReference(Name("E", None))
RefZ == STypeReference(Name("Z", None))

\* schema.new_context(): the schema's named types, no ambient namespace
new_context == Context(Registry, None)

PrimitiveSchemas ==
    {SNull, SBoolean, SInt, SLong, SFloat, SDouble, SBytes, SString}

UnionSchemas ==
    { SUnion(<< SNull, SInt >>), SUnion(<< SInt, SNull >>),
      SUnion(<< SDouble, SInt >>), SUnion(<< SNull, SLong, SString >>),
      SUnion(<< SNull, RecR >>), SUnion(<< RefR, SNull >>),
      SUnion(<< FixXG, RefR >>), SUnion(<< EnumE, SString >>),
      SUnion(<< SString, EnumE >>), SUnion(<< SNull, FixF >>),
      SUnion(<< FixXG, RefF >>) }

RecordSchemas ==
    { RecR, RecXR,
      SRecord(Name("Empty", None), << >>),
      SRecord(Name("R3", None),
              << RecordField(txt_a, SLong, None),
                 RecordField(txt_b, SString, None),
                 RecordField(txt_c, SNull, None) >>),
      SRecord(Name("N", Some("x")), << RecordField(txt_r, RefR, None) >>),
      SRecord(Name("U", None),
              << RecordField(txt_u, SUnion(<< SNull, SInt >>), None),
                 RecordField(txt_r, RefR, None) >>),
      SRecord(Name("P", None),
              << RecordField(txt_c, FixXG, None),
                 RecordField(txt_r, RefR, None) >>),
      SRecord(Name("W", None),
              << RecordField(txt_u, SUnion(<< RefR, SNull >>), None) >>),
      RecBA, RecD, RecDE, RecDB, RecDZ, RecDR, RecDJ }

Schemas ==
    PrimitiveSchemas \cup {FixF, FixXG, EnumE, EnumE2, RefR, RefF, RefE, RefZ}
    \cup UnionSchemas \cup RecordSchemas
    \cup {SArray(SInt), SArray(SLong), SArray(SUnion(<< SNull, SInt >>)),
          SArray(RecXR), SMap(SInt), SMap(SString)}

\* sequences over S of length at most n
SeqsUpTo(S, n) == UNION { [1..k -> S] : k \in 0..n }

RecAB == VRecord(<< << txt_a, VLong(42) >>, << txt_b, VString(txt_foo) >> >>)
RecA == VRecord(<< << txt_a, VLong(42) >> >>)

LeafValues ==
    { VNull, VBoolean(TRUE), VBoolean(FALSE),
      VInt(5), VInt(-1), VInt(64), VLong(42), VLong(-65),
      \* 2^32 + 5 and 2^31 + 1: Longs beyond the range of an i32
      VLong64(1, 5), VLong64(0, -2147483647),
      VFloat(<< 63, 128, 0, 0 >>), VDouble(<< 191, 240, 0, 0, 0, 0, 0, 1 >>),
      VBytes(<< >>), VBytes(<< 1, 2 >>), VBytes(<< 255 >>),
      VString(txt_foo), VString(sym_A), VString(sym_Z) }
    \cup { VFixed(n, bytes) : n \in 0..MaxFixedLen,
                              bytes \in SeqsUpTo({9}, MaxFixedLen) }
    \cup { VEnum(i, s) : i \in -1..2, s \in {sym_A, sym_B} }

ArrayValues ==
    { VArray(items) :
        items \in SeqsUpTo({VInt(5), VLong(42), VUnion(VNull)}, MaxItems) }
    \cup { VArray(<< RecA, RecAB >>), VArray(<< RecA, RecA >>) }

MapKeys == {txt_a, txt_b}

MapValues ==
    { VMap(entries) :
        entries \in UNION { [keys -> {VInt(5), VString(txt_foo)}] :
                              keys \in { k \in SUBSET MapKeys :
                                           Cardinality(k) <= MaxItems } } }

RecordValues ==
    { VRecord(fields) :
        fields \in SeqsUpTo({txt_a, txt_b, txt_c}
                            \X {VLong(42), VString(txt_foo), VBoolean(FALSE)}, 2) }
    \cup { VRecord(<< << txt_a, VLong(42) >>, << txt_b, VString(txt_foo) >>,
                      << txt_c, VNull >> >>),
           VRecord(<< << txt_r, RecA >> >>),
           VRecord(<< << txt_r, RecAB >> >>),
           VRecord(<< << txt_u, VUnion(VInt(5)) >>, << txt_r, RecAB >> >>),
           VRecord(<< << txt_u, VUnion(VBoolean(TRUE)) >>, << txt_r, RecAB >> >>),
           VRecord(<< << txt_u, VUnion(RecAB) >> >>),
           VRecord(<< << txt_c, VFixed(1, << 9 >>) >>, << txt_r, RecA >> >>),
           VRecord(<< << txt_c, VFixed(1, << 9 >>) >>, << txt_r, RecAB >> >>) }

UnionValues ==
    { VUnion(v) : v \in { VNull, VInt(5), VLong(42), VBoolean(TRUE),
                          VString(txt_foo), VString(sym_A), VEnum(1, sym_B),
                          VFixed(1, << 9 >>), VFixed(2, << 9, 9 >>),
                          RecAB, RecA, VUnion(VNull) } }

Values ==
    LeafValues \cup ArrayValues \cup MapValues \cup RecordValues \cup UnionValues

\* the orders in which a HashMap over MapKeys may iterate
IterOrders == { << txt_a, txt_b >>, << txt_b, txt_a >> }

\* what the caller's buffer may hold before the call
Inputs == { << >>, << 255 >> }

(***************************************************************************)
(* The state machine: a caller validates a value against a schema and      *)
(* encodes it, with or without validating first, or resolves the value     *)
(* against the schema and resolves the result once more.                   *)
(***************************************************************************)
Init ==
    /\ value \in Values
    /\ schema \in Schemas
    /\ input \in Inputs
    /\ buffer = input
    /\ pc = "ready"
    /\ valid = None
    /\ aborted = FALSE
    /\ iterOrder \in IF value.kind = "Map" THEN IterOrders
                                           ELSE { << txt_a, txt_b >> }
    /\ resolved = None
    /\ again = None
    /\ record = None
    /\ puts = << >>

\* value.validate(&schema)
Validate ==
    /\ pc = "ready"
    /\ valid' = Some(validate_inner(value, schema, new_context).ok)
    /\ pc' = "validated"
    /\ UNCHANGED <<value, schema, input, buffer, aborted, iterOrder,
                   resolved, again, record, puts>>

\* encode(&value, &schema, &mut buffer)
Encode ==
    /\ pc \in {"ready", "validated"}
    /\ LET r == encode(value, schema, buffer)
       IN  /\ buffer' = r.buf
           /\ aborted' = r.aborted
    /\ pc' = "encoded"
    /\ UNCHANGED <<value, schema, input, valid, iterOrder,
                   resolved, again, record, puts>>

\* encode_inner(&value, &schema, &mut buffer, &mut context), the context
\* being the schema's own
EncodeInner ==
    /\ pc \in {"ready", "validated"}
    /\ LET r == encode_inner(value, schema, buffer, new_context)
       IN  /\ buffer' = r.buf
           /\ aborted' = r.aborted
    /\ pc' = "encoded_inner"
    /\ UNCHANGED <<value, schema, input, valid, iterOrder,
                   resolved, again, record, puts>>

\* the Result that resolve returns to its caller
Returned(r) == IF r.ok THEN [ok |-> TRUE, val |-> r.val]
                       ELSE [ok |-> FALSE, err |-> r.err]

\* value.resolve(&schema, &mut schema.new_context())
Resolve ==
    /\ pc = "ready"
    /\ resolved' = Some(Returned(resolve(value, schema, new_context)))
    /\ pc' = "resolved"
    /\ UNCHANGED <<value, schema, input, buffer, valid, aborted, iterOrder,
                   again, record, puts>>

\* r.resolve(&schema, &mut schema.new_context()) for the r that resolve returned
ResolveAgain ==
    /\ pc = "resolved"
    /\ resolved[1].ok
    /\ again' = Some(Returned(resolve(resolved[1].val, schema, new_context)))
    /\ pc' = "resolved_again"
    /\ UNCHANGED <<value, schema, input, buffer, valid, aborted, iterOrder,
                   resolved, record, puts>>

Next == Validate \/ Encode \/ EncodeInner \/ Resolve \/ ResolveAgain

Spec == Init /\ [][Next]_vars

(***************************************************************************)
(* The state machine of the Record builder: a caller asks for the builder  *)
(* of a schema and puts values into it.                                    *)
(***************************************************************************)
\* the field names and the values that the caller puts
PutNames == {txt_a, txt_b, txt_z}
PutValues == {VInt(5), VString(txt_foo)}

InitRecord ==
    /\ value = VNull
    /\ schema \in Schemas
    /\ input = << >>
    /\ buffer = << >>
    /\ pc = "record_ready"
    /\ valid = None
    /\ aborted = FALSE
    /\ iterOrder = << txt_a, txt_b >>
    /\ resolved = None
    /\ again = None
    /\ record = None
    /\ puts = << >>

\* Record::new(&schema)
RecordNew ==
    /\ pc = "record_ready"
    /\ record' = Record_new(schema)
    /\ pc' = IF Record_new(schema) = None THEN "no_record" ELSE "building"
    /\ UNCHANGED <<value, schema, input, buffer, valid, aborted, iterOrder,
                   resolved, again, puts>>

\* record.put(field, v)
Put ==
    /\ pc = "building"
    /\ Len(puts) < MaxPuts
    /\ \E field \in PutNames, v \in PutValues :
           /\ record' = Some(put(record[1], field, v))
           /\ puts' = Append(puts, << field, v >>)
    /\ UNCHANGED <<value, schema, input, buffer, pc, valid, aborted, iterOrder,
                   resolved, again>>

NextRecord == RecordNew \/ Put

SpecRecord == InitRecord /\ [][NextRecord]_vars

TypeOK ==
    /\ value \in Values
    /\ schema \in Schemas
    /\ pc \in {"ready", "validated", "encoded", "encoded_inner", "resolved",
              "resolved_again", "record_ready", "no_record", "building"}
    /\ aborted \in BOOLEAN

(***************************************************************************)
(* Properties of validate.                                                 *)
(***************************************************************************)
Validated == pc = "validated"

\* the context in which validate_inner reaches field i of a record
RECURSIVE FieldContext(_, _, _)
FieldContext(s, v, i) ==
    IF i = 1 THEN enter_namespace(s.name, new_context)
    ELSE validate_inner(v.fields[i - 1][2], s.fields[i - 1].schema,
                        FieldContext(s, v, i - 1)).ctx

\* the context in which find_schema tries branch i of a union
RECURSIVE BranchContext(_, _, _, _)
BranchContext(schemas, v, i, context) ==
    IF i = 1 THEN context
    ELSE validate_inner(v, schemas[i - 1],
                        BranchContext(schemas, v, i - 1, context)).ctx

\* the 1-based positions of the branches that accept v
Accepting(schemas, v, context) ==
    { i \in 1..Len(schemas) :
        validate_inner(v, schemas[i], BranchContext(schemas, v, i, context)).ok }

\* C1: validate of a Record value against a Record schema is true exactly
\* when the value has as many fields as the schema, the i-th names are equal
\* at every position, and every i-th value validates against the i-th field
\* schema.
C1_RecordValidation ==
    (Validated /\ value.kind = "Record" /\ schema.kind = "Record") =>
        valid = Some(/\ Len(value.fields) = Len(schema.fields)
                     /\ \A i \in 1..Len(value.fields) :
                          /\ value.fields[i][1] = schema.fields[i].name
                          /\ validate_inner(value.fields[i][2],
                                            schema.fields[i].schema,
                                            FieldContext(schema, value, i)).ok)

C1_Witness ==
    Validated /\ value = RecAB /\ schema = RecR /\ valid = Some(TRUE)

\* C2: against an Enum schema, Enum(i, s) is accepted exactly when i is a
\* position of symbols and symbols[i] = s, String(s) exactly when s is one
\* of the symbols, and a value of any other kind is rejected.
C2_EnumValidation ==
    (Validated /\ schema.kind = "Enum") =>
        valid = Some(CASE value.kind = "Enum" ->
                            /\ value.i \in 0..(Len(schema.symbols) - 1)
                            /\ schema.symbols[value.i + 1] = value.s
                       [] value.kind = "String" ->
                            value.s \in { schema.symbols[k] :
                                            k \in DOMAIN schema.symbols }
                       [] OTHER -> FALSE)

C2_Witness ==
    Validated /\ value = VEnum(-1, sym_A) /\ schema = EnumE
              /\ valid = Some(FALSE)

\* C3: a Fixed value is accepted against a Fixed schema only when the length
\* of its byte sequence equals the declared size of the schema.
C3_FixedLength ==
    (Validated /\ value.kind = "Fixed" /\ schema.kind = "Fixed"
               /\ valid = Some(TRUE)) =>
        Len(value.bytes) = schema.size

\* C4: validate of Union(v), or of a bare Record value, against a Union
\* schema is true exactly when at least one branch accepts the inner value.
C4_UnionValidation ==
    (Validated /\ schema.kind = "Union" /\ value.kind \in {"Union", "Record"}) =>
        LET inner == IF value.kind = "Union" THEN value.item ELSE value
        IN  valid = Some(Accepting(schema.schemas, inner, new_context) # {})

C4_Witness ==
    Validated /\ value = RecAB /\ schema = SUnion(<< SNull, RecR >>)
              /\ valid = Some(TRUE)

\* C5: against a TypeReference that the context resolves to node N, validate
\* gives for a value of any kind what it gives against N; against one that
\* does not resolve it gives false.
C5_TypeReferenceTransparent ==
    (Validated /\ schema.kind = "TypeReference") =>
        LET t == lookup_type(schema.name, new_context)
        IN  valid = Some(IF t = None THEN FALSE
                         ELSE validate_inner(value, t[1], new_context).ok)

(***************************************************************************)
(* Properties of encode.                                                   *)
(***************************************************************************)
EncodeReturned == pc \in {"encoded", "encoded_inner"}

\* the context the encoder started from
EntryContext == IF pc = "encoded" THEN SchemaParseContext_new ELSE new_context

\* the encodings of vals[i..], each against schemas[i] and each into an empty
\* buffer, one after the other; the encoding stops at a panic
RECURSIVE ConcatEncodings(_, _, _, _)
ConcatEncodings(vals, schemas, i, context) ==
    IF i > Len(vals) THEN [buf |-> << >>, aborted |-> FALSE]
    ELSE LET e == encode_ref_inner(vals[i], schemas[i], << >>, context)
             rest == ConcatEncodings(vals, schemas, i + 1, e.ctx)
         IN  IF e.aborted THEN [buf |-> e.buf, aborted |-> TRUE]
             ELSE [buf |-> e.buf \o rest.buf, aborted |-> rest.aborted]

\* the same for the entries of a map, each key length-prefixed before its value
RECURSIVE ConcatEntries(_, _, _, _, _)
ConcatEntries(entries, keys, inner, i, context) ==
    IF i > Len(keys) THEN [buf |-> << >>, aborted |-> FALSE]
    ELSE LET e == encode_ref_inner(entries[keys[i]], inner, << >>, context)
             rest == ConcatEntries(entries, keys, inner, i + 1, e.ctx)
             key == << 2 * Len(keys[i]) >> \o keys[i]
         IN  IF e.aborted THEN [buf |-> key \o e.buf, aborted |-> TRUE]
             ELSE [buf |-> key \o e.buf \o rest.buf, aborted |-> rest.aborted]

\* C6 as stated: encode returns normally for every pair of value and schema.
C6_EncodeNeverAborts == EncodeReturned => ~aborted

\* whether a Union or a Record value occurs in v
RECURSIVE ContainsUnionOrRecord(_)
ContainsUnionOrRecord(v) ==
    CASE v.kind \in {"Union", "Record"} -> TRUE
      [] v.kind = "Array" ->
             \E i \in DOMAIN v.items : ContainsUnionOrRecord(v.items[i])
      [] v.kind = "Map" ->
             \E k \in DOMAIN v.entries : ContainsUnionOrRecord(v.entries[k])
      [] OTHER -> FALSE

\* C6, amended: encode returns normally for every value in which no Union
\* and no Record occurs, and for a Union or Record whose schema is of another
\* kind; it panics for a Union value that no branch of its Union schema
\* accepts and for a Record value with more fields than its Record schema.
C6_AbortsAtUnionAndRecord ==
    /\ (EncodeReturned /\ ~ContainsUnionOrRecord(value)) => ~aborted
    /\ (EncodeReturned /\ value.kind = "Union" /\ schema.kind # "Union") =>
           ~aborted
    /\ (EncodeReturned /\ value.kind = "Record"
                       /\ schema.kind \notin {"Record", "TypeReference"}) =>
           ~aborted
    /\ (EncodeReturned /\ value.kind = "Union" /\ schema.kind = "Union"
          /\ Accepting(schema.schemas, value.item, EntryContext) = {}) =>
           (aborted /\ buffer = input)
    /\ (EncodeReturned /\ value.kind = "Record" /\ schema.kind = "Record"
          /\ Len(value.fields) > Len(schema.fields)) =>
           aborted

C6_Witness ==
    /\ EncodeReturned /\ value = VUnion(VBoolean(TRUE))
    /\ schema = SUnion(<< SInt, SNull >>) /\ aborted /\ buffer = input

\* the validator pairs the value kind with the schema kind
KindsMatch(v, s) ==
    \/ v.kind = s.kind
    \/ v.kind = "String" /\ s.kind = "Enum"
    \/ v.kind \in {"Record", "Fixed"} /\ s.kind = "TypeReference"
    \/ v.kind = "Record" /\ s.kind = "Union"

\* C7 as stated: a value whose kind does not match the kind of the schema
\* appends nothing, primitive values included.
C7_MismatchAppendsNothing ==
    (EncodeReturned /\ ~KindsMatch(value, schema)) => buffer = input

\* the value kinds whose encoding consults the schema
SchemaGuidedKinds == {"String", "Union", "Array", "Map", "Record"}

\* the schema kinds for which encode_ref_inner emits anything for such a value
GuidingKinds(kind) ==
    CASE kind = "String" -> {"String", "Enum"}
      [] kind = "Record" -> {"Record", "TypeReference"}
      [] OTHER -> {kind}

\* C7, amended: a String, Union, Array, Map or Record value appends nothing
\* and returns normally when the schema is of no kind that guides it; a
\* value of any other kind appends the same bytes whatever the schema is.
C7_GuidedMismatchAppendsNothing ==
    /\ (EncodeReturned /\ value.kind \in SchemaGuidedKinds
                       /\ schema.kind \notin GuidingKinds(value.kind)) =>
           (buffer = input /\ ~aborted)
    /\ (EncodeReturned /\ value.kind \notin SchemaGuidedKinds) =>
           /\ ~aborted
           /\ \A s \in Schemas : encode(value, s, input).buf = buffer
           /\ (value.kind = "Boolean" =>
                 buffer = input \o << IF value.b THEN 1 ELSE 0 >>)
           /\ (value.kind = "Fixed" => buffer = input \o value.bytes)

C7_Witness ==
    /\ EncodeReturned /\ value = VBoolean(TRUE) /\ schema = SString
    /\ buffer = input \o << 1 >>

\* C8: encoding Union(v) against a Union schema with an accepting branch
\* appends the Long encoding of the smallest 0-based index of an accepting
\* branch, then the encoding of v against that branch.
C8_UnionBranchIndex ==
    /\ (EncodeReturned /\ value.kind = "Union" /\ schema.kind = "Union"
          /\ Accepting(schema.schemas, value.item, EntryContext) # {}) =>
           LET acc == Accepting(schema.schemas, value.item, EntryContext)
               first == CHOOSE i \in acc : \A j \in acc : i <= j
               branch == schema.schemas[first]
               ctx == validate_inner(value.item, branch,
                          BranchContext(schema.schemas, value.item, first,
                                        EntryContext)).ctx
               e == encode_ref_inner(value.item, branch, << >>, ctx)
           IN  /\ buffer = input \o << 2 * (first - 1) >> \o e.buf
               /\ aborted = e.aborted
    /\ (EncodeReturned /\ value = VUnion(VInt(5))) =>
           /\ schema = SUnion(<< SNull, SInt >>) => buffer = input \o << 2, 10 >>
           /\ schema = SUnion(<< SInt, SNull >>) => buffer = input \o << 0, 10 >>

C8_Witness ==
    /\ EncodeReturned /\ value = VUnion(VInt(5))
    /\ schema = SUnion(<< SNull, SInt >>) /\ buffer = input \o << 2, 10 >>

\* C9: an Array or Map of n items against an Array or Map schema appends the
\* single byte 0 when n = 0, and otherwise the Long encoding of n, every
\* element (for a Map every key, length-prefixed, and then its value) encoded
\* against the element schema, and one terminating byte 0.
C9_BlockEncoding ==
    /\ (EncodeReturned /\ value.kind = "Array" /\ schema.kind = "Array") =>
           LET n == Len(value.items)
               body == ConcatEncodings(value.items, [i \in 1..n |-> schema.inner],
                                       1, EntryContext)
           IN  IF n = 0 THEN buffer = input \o << 0 >> /\ ~aborted
               ELSE /\ aborted = body.aborted
                    /\ ~aborted =>
                         buffer = input \o << 2 * n >> \o body.buf \o << 0 >>
    /\ (EncodeReturned /\ value.kind = "Map" /\ schema.kind = "Map") =>
           LET keys == map_iter(value.entries)
               n == Cardinality(DOMAIN value.entries)
               body == ConcatEntries(value.entries, keys, schema.inner, 1,
                                     EntryContext)
           IN  IF n = 0 THEN buffer = input \o << 0 >> /\ ~aborted
               ELSE /\ aborted = body.aborted
                    /\ ~aborted =>
                         buffer = input \o << 2 * n >> \o body.buf \o << 0 >>

C9_Witness ==
    /\ EncodeReturned /\ schema = SMap(SString) /\ iterOrder = << txt_b, txt_a >>
    /\ value = VMap((txt_a :> VString(txt_foo)) @@ (txt_b :> VString(txt_foo)))
    /\ buffer = input \o << 4, 2, 98, 6, 102, 111, 111, 2, 97, 6, 102, 111, 111, 0 >>

\* C10: a Record value that validates appends the encodings of its field
\* values in schema field order, each against its field schema, and nothing
\* else; the bytes are the same through a TypeReference that resolves to the
\* Record schema; {a: 42, b: "foo"} gives 0x54 0x06 0x66 0x6F 0x6F.
C10_RecordEncoding ==
    LET target == IF schema.kind = "TypeReference"
                  THEN lookup_type(schema.name, EntryContext)
                  ELSE Some(schema)
    IN  /\ (EncodeReturned /\ value.kind = "Record" /\ valid = Some(TRUE)
              /\ schema.kind \in {"Record", "TypeReference"}
              /\ target # None /\ target[1].kind = "Record") =>
               LET n == Len(value.fields)
                   body == ConcatEncodings(
                               [i \in 1..n |-> value.fields[i][2]],
                               [i \in 1..n |-> target[1].fields[i].schema],
                               1, EntryContext)
               IN  /\ buffer = input \o body.buf
                   /\ aborted = body.aborted
        /\ (EncodeReturned /\ value = RecAB
              /\ (schema = RecR \/ (schema = RefR /\ pc = "encoded_inner"))) =>
               buffer = input \o << 84, 6, 102, 111, 111 >>

C10_Witness ==
    /\ pc = "encoded_inner" /\ value = RecAB /\ schema = RefR
    /\ valid = Some(TRUE) /\ buffer = input \o << 84, 6, 102, 111, 111 >>

(***************************************************************************)
(* Properties of resolve.                                                  *)
(***************************************************************************)
Resolved == pc = "resolved"

\* the value that resolve dispatches on: a Union is unwrapped first when the
\* reader schema is no Union
ResolveSelf ==
    IF value.kind = "Union" /\ schema.kind # "Union" THEN value.item ELSE value

\* C11: against an Enum reader, Enum(i, s) resolves exactly when
\* 0 <= i < symbols.len() and s is a symbol, String(s) exactly when s is a
\* symbol, and every other value fails; the result is Enum(p, s) with p the
\* position of s in symbols; String("A") against [A, B] gives Enum(0, "A"),
\* String("Z") fails, Enum(0, "A") is accepted.
C11_EnumResolution ==
    (Resolved /\ schema.kind = "Enum") =>
        LET v == ResolveSelf
            r == resolved[1]
            symbols == schema.symbols
            member(s) == \E p \in 1..Len(symbols) : symbols[p] = s
        IN  /\ v.kind = "Enum" =>
                  (r.ok <=> (0 <= v.i /\ v.i < Len(symbols) /\ member(v.s)))
            /\ v.kind = "String" => (r.ok <=> member(v.s))
            /\ v.kind \notin {"Enum", "String"} => ~r.ok
            /\ r.ok => \E p \in 1..Len(symbols) :
                           symbols[p] = v.s /\ r.val = VEnum(p - 1, v.s)
            /\ (v = VString(sym_A) /\ schema = EnumE) =>
                  r = [ok |-> TRUE, val |-> VEnum(0, sym_A)]
            /\ (v = VString(sym_Z) /\ schema = EnumE) => ~r.ok
            /\ (v = VEnum(0, sym_A) /\ schema = EnumE) => r.ok

\* C12: when a Record or Map value resolves against a Record reader, the
\* result is a Record whose field names are the reader's field names in the
\* reader's order; input fields that the reader does not declare are dropped.
C12_ReaderFieldOrder ==
    /\ (Resolved /\ schema.kind = "Record" /\ resolved[1].ok
          /\ ResolveSelf.kind \in {"Record", "Map"}) =>
           LET r == resolved[1].val
           IN  /\ r.kind = "Record"
               /\ Len(r.fields) = Len(schema.fields)
               /\ \A i \in 1..Len(schema.fields) :
                      r.fields[i][1] = schema.fields[i].name
    /\ (Resolved /\ value = RecAB /\ schema = RecBA) =>
           resolved[1] = [ok |-> TRUE,
                          val |-> VRecord(<< << txt_b, VString(txt_foo) >>,
                                             << txt_a, VLong(42) >> >>)]

C12_Witness ==
    /\ Resolved /\ schema = RecBA
    /\ value = VRecord(<< << txt_a, VLong(42) >>, << txt_b, VString(txt_foo) >>,
                          << txt_c, VNull >> >>)
    /\ resolved[1] = [ok |-> TRUE,
                      val |-> VRecord(<< << txt_b, VString(txt_foo) >>,
                                         << txt_a, VLong(42) >> >>)]

\* the names that the input of resolve_record carries
InputNames(v) ==
    IF v.kind = "Map" THEN DOMAIN v.entries
    ELSE { v.fields[k][1] : k \in 1..Len(v.fields) }

\* the value the input carries under a name
InputValue(v, name) ==
    IF v.kind = "Map" THEN v.entries[name] ELSE collect_fields(v.fields)[name]

\* C13: a reader field absent from the input takes the default of the field,
\* converted to a Value and resolved against the schema of the field; for an
\* Enum field every default that is a symbol gives Enum(position, symbol); a
\* field with neither value nor default makes the whole resolve fail with the
\* missing-field error.
C13_MissingFieldDefault ==
    (Resolved /\ schema.kind = "Record"
       /\ ResolveSelf.kind \in {"Record", "Map"}) =>
        LET v == ResolveSelf
            r == resolved[1]
            fields == schema.fields
            absent(i) == fields[i].name \notin InputNames(v)
            expected(i) ==
                IF absent(i)
                THEN resolve(avro(fields[i].default[1]), fields[i].schema,
                             new_context)
                ELSE resolve(InputValue(v, fields[i].name), fields[i].schema,
                             new_context)
            defaulted(i) ==
                /\ fields[i].default # None
                /\ IF fields[i].schema.kind = "Enum"
                   THEN /\ fields[i].default[1].kind = "String"
                        /\ symbols_contains(fields[i].schema.symbols,
                                            fields[i].default[1].s)
                   ELSE expected(i).ok
        IN  /\ (\E i \in 1..Len(fields) : absent(i) /\ fields[i].default = None)
                  => ~r.ok
            /\ (\A i \in 1..Len(fields) :
                    IF absent(i) THEN defaulted(i) ELSE expected(i).ok)
                  => /\ r.ok
                     /\ \A i \in 1..Len(fields) :
                          absent(i) =>
                            IF fields[i].schema.kind = "Enum"
                            THEN \E p \in 1..Len(fields[i].schema.symbols) :
                                   /\ fields[i].schema.symbols[p]
                                        = fields[i].default[1].s
                                   /\ r.val.fields[i][2]
                                        = VEnum(p - 1, fields[i].default[1].s)
                            ELSE r.val.fields[i][2] = expected(i).val
            /\ (v = RecA /\ schema = RecD) =>
                  r = [ok |-> TRUE,
                       val |-> VRecord(<< << txt_a, VInt(42) >>,
                                          << txt_b, VString(txt_z) >> >>)]
            /\ (v = RecA /\ schema = RecR) =>
                  r = [ok |-> FALSE, err |-> "missing field in record"]

\* C14: whenever resolve returns Ok(r), validate(r, S) is true, for a reader
\* schema S of every kind.
C14_ResolvedValidates ==
    (Resolved /\ resolved[1].ok) =>
        validate_inner(resolved[1].val, schema, new_context).ok

\* C15: against an Int reader, Int(n) gives Int(n) and Long(n) gives the Int
\* of the low 32 bits of n, never an error; against a Long reader, Int(n)
\* gives Long(n) of the same number and Long(n) gives Long(n); a value of any
\* other kind fails with the kind-mismatch error.
C15_IntegerPromotion ==
    LET v == ResolveSelf
        r == resolved[1]
    IN  /\ (Resolved /\ schema.kind = "Int") =>
               /\ v.kind = "Int" => r = [ok |-> TRUE, val |-> VInt(v.n)]
               /\ v.kind = "Long" =>
                      /\ r.ok /\ r.val.kind = "Int"
                      /\ \A k \in 0..31 :
                             bit(r.val.n, k) = i64_bit(v.hi, v.n, k)
               /\ v.kind \notin {"Int", "Long"} =>
                      r = [ok |-> FALSE, err |-> "Int expected"]
               /\ v = VLong64(1, 5) => r.val = VInt(5)
               /\ v = VLong64(0, -2147483647) => r.val = VInt(-2147483647)
               /\ v = VLong(-65) => r.val = VInt(-65)
        /\ (Resolved /\ schema.kind = "Long") =>
               /\ v.kind = "Int" =>
                      /\ r.ok /\ r.val.kind = "Long" /\ r.val.n = v.n
                      /\ r.val.hi = (IF v.n < 0 THEN -1 ELSE 0)
               /\ v.kind = "Long" => r = [ok |-> TRUE, val |-> v]
               /\ v.kind \notin {"Int", "Long"} =>
                      r = [ok |-> FALSE, err |-> "Long expected"]

C15_Witness ==
    /\ Resolved /\ value = VLong64(1, 5) /\ schema = SInt
    /\ resolved[1] = [ok |-> TRUE, val |-> VInt(5)]

\* C17: for every value that validates against the schema, encode returns
\* normally and skips nothing: against a Union schema (a bare Record value
\* that the Union accepts included) it appends the index of the branch and
\* then the content, and a Record reached through a TypeReference appends
\* its fields.
C17_ValidatedEncodesCompletely ==
    (EncodeReturned /\ valid = Some(TRUE)) =>
        /\ ~aborted
        /\ schema.kind = "Union" =>
               LET item == IF value.kind = "Union" THEN value.item ELSE value
                   acc == Accepting(schema.schemas, item, new_context)
                   first == CHOOSE i \in acc : \A j \in acc : i <= j
                   e == encode_ref_inner(item, schema.schemas[first], << >>,
                                         new_context)
               IN  buffer = input \o << 2 * (first - 1) >> \o e.buf
        /\ (value.kind = "Record" /\ schema.kind = "TypeReference") =>
               LET target == lookup_type(schema.name, new_context)[1]
                   n == Len(value.fields)
                   body == ConcatEncodings(
                               [i \in 1..n |-> value.fields[i][2]],
                               [i \in 1..n |-> target.fields[i].schema],
                               1, new_context)
               IN  buffer = input \o body.buf

\* C18: if resolve(v, S) returns Ok(r), then resolve(r, S) returns Ok(r).
C18_ResolveIdempotent ==
    pc = "resolved_again" => again = resolved

(***************************************************************************)
(* Properties of the Record builder.                                       *)
(***************************************************************************)
\* the value of the most recent put for a name, Null if there was none
LastPut(name) ==
    LET hits == { k \in 1..Len(puts) : puts[k][1] = name }
    IN  IF hits = {} THEN VNull
        ELSE puts[CHOOSE k \in hits : \A j \in hits : j <= k][2]

\* C16: Record::new gives a builder exactly for a Record schema; after any
\* sequence of puts its fields have the length, names and order of the
\* schema fields, and every field holds the value of the most recent put for
\* its name, or Null if there was none (so a put for a name that is not in
\* the schema, or for another name, leaves the field as it was).
C16_RecordBuilder ==
    /\ pc \in {"no_record", "building"} =>
           (record = None <=> schema.kind # "Record")
    /\ pc = "no_record" => record = None
    /\ pc = "building" =>
           LET fields == record[1].fields
           IN  /\ Len(fields) = Len(schema.fields)
               /\ \A i \in 1..Len(fields) :
                      /\ fields[i][1] = schema.fields[i].name
                      /\ fields[i][2] = LastPut(schema.fields[i].name)

C16_Witness ==
    /\ pc = "building" /\ schema = RecR
    /\ puts = << << txt_a, VInt(5) >>, << txt_z, VString(txt_foo) >>,
                 << txt_a, VString(txt_foo) >> >>
    /\ record[1].fields = << << txt_a, VString(txt_foo) >>, << txt_b, VNull >> >>

====
